---- MODULE Spec2Model ----
(***************************************************************************)
(* FinanceApp: the installment scheduler (backend/app/utils.py) and the    *)
(* transaction store it feeds (backend/app/routers/transactions.py).       *)
(*                                                                         *)
(* Money is an exact decimal with two fraction digits; it is modelled as   *)
(* an integer number of cents.  A calendar date is a record                *)
(* [year, month, day].                                                     *)
(***************************************************************************)
EXTENDS Integers, Sequences, FiniteSets, TLC

VARIABLES
    plano,          \* arguments of the calcular_datas_parcelas call under study
    retorno,        \* its outcome: not called yet, returned list, or ValueError
    transactions,   \* committed rows of table "transactions"
    installments,   \* committed rows of table "installments"
    response,       \* HTTP status of the last handled request (0 = none yet)
    goals,          \* committed rows of table "savings_goals"
    body,           \* body of the last response when it answered a dashboard
                    \* request, NoBody otherwise
    sessions        \* requests in flight, each with the row its own database
                    \* session has loaded; NoSessions when requests run alone

vars == <<plano, retorno, transactions, installments, response, goals, body,
          sessions>>

(***************************************************************************)
(* Bounds of the model                                                     *)
(***************************************************************************)
MaxYear == 2024
MaxCents == 7
MaxTxId == 2
MaxInstId == 2

(***************************************************************************)
(* Program constants                                                       *)
(***************************************************************************)
MIN_PARCELAS == 1
MAX_PARCELAS == 48

None == "None"

ENTRADA == "entrada"
SAIDA_DEBITO == "saida_debito"
SAIDA_CREDITO == "saida_credito"
TransactionType == {ENTRADA, SAIDA_DEBITO, SAIDA_CREDITO}

PENDENTE == "pendente"
PAGO == "pago"
ATRASADO == "atrasado"
PaymentStatus == {PENDENTE, PAGO, ATRASADO}

(***************************************************************************)
(* Calendar arithmetic: date + relativedelta(months=i)                     *)
(***************************************************************************)
Min(a, b) == IF a <= b THEN a ELSE b

IsLeap(y) == (y % 4 = 0) /\ ((y % 100 # 0) \/ (y % 400 = 0))

DaysInMonth(y, m) ==
    IF m = 2 THEN (IF IsLeap(y) THEN 29 ELSE 28)
    ELSE IF m \in {4, 6, 9, 11} THEN 30
    ELSE 31

Date(y, m, d) == [year |-> y, month |-> m, day |-> d]

\* Month addition done one month at a time from the previous result, so a day
\* clamped in a short month stays clamped afterwards.
RECURSIVE AddMonthsChained(_, _)
AddMonthsChained(dt, i) ==
    IF i = 0 THEN dt
    ELSE LET p == AddMonthsChained(dt, i - 1)
             y == IF p.month = 12 THEN p.year + 1 ELSE p.year
             m == IF p.month = 12 THEN 1 ELSE p.month + 1
         IN  Date(y, m, Min(DaysInMonth(y, m), p.day))

\* Month addition that wraps past December without moving to the next year.
AddMonthsSameYear(dt, i) ==
    LET m == ((dt.month - 1 + i) % 12) + 1
    IN  Date(dt.year, m, Min(DaysInMonth(dt.year, m), dt.day))

\* dt + relativedelta(months=i), i >= 0: months beyond 11 are carried into
\* years, the month wraps past December, and the day is clamped to the last
\* day of the target month.
AddMonths(dt, i) ==
    LET years  == i \div 12
        months == i % 12
        y0     == dt.year + years
        m0     == dt.month + months
        y      == IF m0 > 12 THEN y0 + 1 ELSE y0
        m      == IF m0 > 12 THEN m0 - 12 ELSE m0
    IN  Date(y, m, Min(DaysInMonth(y, m), dt.day))

(***************************************************************************)
(* Decimal arithmetic in cents                                             *)
(***************************************************************************)
Abs(x) == IF x < 0 THEN -x ELSE x

\* Truncating quantize (ROUND_DOWN) in place of ROUND_HALF_UP.
QuantizeRoundDown(num, den) ==
    LET q == Abs(num) \div den
    IN  IF num < 0 THEN -q ELSE q

\* (num / den).quantize(Decimal("0.01"), rounding=ROUND_HALF_UP) with num in
\* cents: the nearest cent, ties away from zero.
QuantizeHalfUp(num, den) ==
    LET q == (2 * Abs(num) + den) \div (2 * den)
    IN  IF num < 0 THEN -q ELSE q

(***************************************************************************)
(* calcular_datas_parcelas                                                 *)
(***************************************************************************)
\* The argument check with the amount test written as < 0.
PlanoInvalidoAceitaZero(num_parcelas, valor_total) ==
    \/ num_parcelas < MIN_PARCELAS
    \/ num_parcelas > MAX_PARCELAS
    \/ valor_total < 0

\* The three guards that raise ValueError.
PlanoInvalido(num_parcelas, valor_total) ==
    \/ num_parcelas < MIN_PARCELAS
    \/ num_parcelas > MAX_PARCELAS
    \/ valor_total <= 0

\* The amount of installment i (0-based) with the rounding difference dropped.
ValorParcelaSemAjuste(i, num_parcelas, valor_parcela_base, diferenca) ==
    valor_parcela_base

\* The amount of installment i (0-based): the base, plus the rounding
\* difference on the last one.
ValorParcela(i, num_parcelas, valor_parcela_base, diferenca) ==
    IF i = num_parcelas - 1 /\ diferenca # 0
    THEN valor_parcela_base + diferenca
    ELSE valor_parcela_base

\* The record of installment i (0-based) numbered from 0.
ParcelaNumeradaDeZero(i, num_parcelas, valor_parcela, data_vencimento) ==
    [numero_parcela   |-> i,
     total_parcelas   |-> num_parcelas,
     valor_parcela    |-> valor_parcela,
     data_vencimento  |-> data_vencimento,
     status_pagamento |-> PENDENTE]

\* The dictionary built for installment i (0-based).
Parcela(i, num_parcelas, valor_parcela, data_vencimento) ==
    [numero_parcela   |-> i + 1,
     total_parcelas   |-> num_parcelas,
     valor_parcela    |-> valor_parcela,
     data_vencimento  |-> data_vencimento,
     status_pagamento |-> PENDENTE]

\* The due date of installment i (0-based) taken one month too late.
DataVencimentoMesSeguinte(data_primeira_parcela, i) ==
    AddMonths(data_primeira_parcela, i + 1)

\* The due date of installment i (0-based).
DataVencimento(data_primeira_parcela, i) ==
    AddMonths(data_primeira_parcela, i)

\* The outcome of the call: estado "ValueError" with no list, or estado
\* "retornou" with the list of installment dictionaries.
calcular_datas_parcelas(data_primeira_parcela, num_parcelas, valor_total) ==
    IF PlanoInvalido(num_parcelas, valor_total)
    THEN [estado |-> "ValueError", parcelas |-> << >>]
    ELSE LET valor_parcela_base    == QuantizeHalfUp(valor_total, num_parcelas)
             valor_total_calculado == valor_parcela_base * num_parcelas
             diferenca             == valor_total - valor_total_calculado
         IN  [estado   |-> "retornou",
              parcelas |->
                 [k \in 1..num_parcelas |->
                     Parcela(k - 1, num_parcelas,
                             ValorParcela(k - 1, num_parcelas,
                                          valor_parcela_base, diferenca),
                             DataVencimento(data_primeira_parcela, k - 1))]]

(***************************************************************************)
(* The scheduler on its own: every plan of the bounded input space, valid  *)
(* or not, is handed to calcular_datas_parcelas once.                      *)
(***************************************************************************)
Years == 2023..MaxYear
DiasEstudados == {1, 15, 28, 29, 30, 31}
Datas ==
    {dt \in [year : Years, month : 1..12, day : DiasEstudados] :
        dt.day <= DaysInMonth(dt.year, dt.month)}
Valores == (-1..MaxCents) \cup {15000, 100000}
Contagens == (MIN_PARCELAS - 1)..(MAX_PARCELAS + 1)

NaoChamado == [estado |-> "nao_chamado", parcelas |-> << >>]
NoBody == [kind |-> "none"]

\* No request is in flight: every handler runs from its query to its commit
\* before the next one starts.
NoSessions == <<>>
PlanoFixo ==
    [data_primeira_parcela |-> Date(2024, 1, 31), num_parcelas |-> 1,
     valor_total |-> 1]

InitSched ==
    /\ plano \in [data_primeira_parcela : Datas,
                  num_parcelas : Contagens,
                  valor_total : Valores]
    /\ retorno = NaoChamado
    /\ transactions = {}
    /\ installments = {}
    /\ response = 0
    /\ goals = {}
    /\ body = NoBody
    /\ sessions = NoSessions

Chamar ==
    /\ retorno.estado = "nao_chamado"
    /\ retorno' = calcular_datas_parcelas(plano.data_primeira_parcela,
                                          plano.num_parcelas,
                                          plano.valor_total)
    /\ UNCHANGED <<plano, transactions, installments, response, goals, body, sessions>>

NextSched == Chamar

SpecSched == InitSched /\ [][NextSched]_vars

(***************************************************************************)
(* The database session: rows added and flushed stay pending until         *)
(* db.commit(); get_db closes the session when the request ends, which     *)
(* rolls back whatever was not committed.                                  *)
(***************************************************************************)
\* A commit that writes nothing.
SessionCommitLosesPending(committed, pending) == committed

\* db.commit(): the pending rows become part of the table.
SessionCommit(committed, pending) == committed \cup pending

\* A close that writes the pending rows instead of discarding them.
SessionCloseKeepsPending(committed, pending) == committed \cup pending

\* db.close() in get_db's finally clause: pending rows are rolled back.
SessionClose(committed, pending) == committed

\* The integer primary key given to the next inserted row.
NextId(rows) ==
    IF rows = {} THEN 1
    ELSE (CHOOSE m \in {r.id : r \in rows} :
             \A r \in rows : r.id <= m) + 1

\* A delete that leaves the installments of the deleted transaction behind.
CascadeDeleteKeepsChildren(rows, transaction) == rows

\* relationship(cascade="all, delete-orphan"): deleting a transaction deletes
\* the installments that reference it.
CascadeDelete(rows, transaction) ==
    {i \in rows : i.transacao_id # transaction.id}

(***************************************************************************)
(* Request validation (pydantic schemas)                                   *)
(***************************************************************************)
\* TransactionCreate: valor_total ge=0, num_parcelas ge=1 le=48, and more
\* than one installment only on a credit transaction.
TransactionCreateValid(transaction_data) ==
    /\ transaction_data.valor_total >= 0
    /\ transaction_data.num_parcelas >= MIN_PARCELAS
    /\ transaction_data.num_parcelas <= MAX_PARCELAS
    /\ ~(transaction_data.tipo # SAIDA_CREDITO
          /\ transaction_data.num_parcelas > 1)

(***************************************************************************)
(* Handlers of routers/transactions.py.  Each is one request, from the     *)
(* validation of its body to the close of its session.                     *)
(***************************************************************************)
\* The installment rows create_transaction adds to the session, with the keys
\* the flush hands out.
NewInstallments(transacao_id, parcelas) ==
    {[id               |-> NextId(installments) + (k - 1),
      transacao_id     |-> transacao_id,
      numero_parcela   |-> parcelas[k].numero_parcela,
      total_parcelas   |-> parcelas[k].total_parcelas,
      valor_parcela    |-> parcelas[k].valor_parcela,
      data_vencimento  |-> parcelas[k].data_vencimento,
      status_pagamento |-> PENDENTE] : k \in 1..Len(parcelas)}

\* Installments generated only for a purchase split in more than one.
GeraParcelasSomenteParcelado(transaction_data) ==
    /\ transaction_data.tipo = SAIDA_CREDITO
    /\ transaction_data.num_parcelas > 1

\* The condition under which create_transaction generates installments.
GeraParcelas(transaction_data) ==
    /\ transaction_data.tipo = SAIDA_CREDITO
    /\ transaction_data.num_parcelas > 0

create_transaction(current_user, transaction_data) ==
    IF ~TransactionCreateValid(transaction_data)
    THEN /\ response' = 422
         /\ UNCHANGED <<transactions, installments>>
    ELSE
    LET new_transaction ==
            [id           |-> NextId(transactions),
             user_id      |-> current_user,
             valor_total  |-> transaction_data.valor_total,
             descricao    |-> transaction_data.descricao,
             categoria    |-> transaction_data.categoria,
             tipo         |-> transaction_data.tipo,
             data_compra  |-> transaction_data.data_compra,
             num_parcelas |-> transaction_data.num_parcelas,
             notas        |-> transaction_data.notas]
        gera == GeraParcelas(transaction_data)
        r == calcular_datas_parcelas(transaction_data.data_compra,
                                     transaction_data.num_parcelas,
                                     transaction_data.valor_total)
    IN  /\ new_transaction.id <= MaxTxId
        /\ IF gera /\ r.estado = "ValueError"
           THEN /\ transactions' = SessionClose(transactions, {new_transaction})
                /\ installments' = SessionClose(installments, {})
                /\ response' = 500
           ELSE LET novas == IF gera
                             THEN NewInstallments(new_transaction.id, r.parcelas)
                             ELSE {}
                IN  /\ \A i \in novas : i.id <= MaxInstId
                    /\ transactions' =
                           SessionCommit(transactions, {new_transaction})
                    /\ installments' = SessionCommit(installments, novas)
                    /\ response' = 201

\* The transaction row with the fields of the request that are not None
\* written over it.
ApplyTransactionUpdate(transaction, transaction_data) ==
    [transaction EXCEPT
        !.descricao = IF transaction_data.descricao # None
                      THEN transaction_data.descricao ELSE @,
        !.categoria = IF transaction_data.categoria # None
                      THEN transaction_data.categoria ELSE @,
        !.notas     = IF transaction_data.notas # None
                      THEN transaction_data.notas ELSE @]

update_transaction(transaction_id, transaction_data, current_user) ==
    LET found == {t \in transactions :
                     t.id = transaction_id /\ t.user_id = current_user}
    IN  IF found = {}
        THEN /\ response' = 404
             /\ UNCHANGED <<transactions, installments>>
        ELSE LET transaction == CHOOSE t \in found : TRUE
                 updated == ApplyTransactionUpdate(transaction, transaction_data)
             IN  /\ transactions' =
                        SessionCommit(transactions \ {transaction}, {updated})
                 /\ UNCHANGED installments
                 /\ response' = 200

delete_transaction(transaction_id, current_user) ==
    LET found == {t \in transactions :
                     t.id = transaction_id /\ t.user_id = current_user}
    IN  IF found = {}
        THEN /\ response' = 404
             /\ UNCHANGED <<transactions, installments>>
        ELSE LET transaction == CHOOSE t \in found : TRUE
             IN  /\ transactions' = transactions \ {transaction}
                 /\ installments' = CascadeDelete(installments, transaction)
                 /\ response' = 204

\* The installment row with the status of the request written over it.
ApplyInstallmentUpdate(installment, status_data) ==
    [installment EXCEPT !.status_pagamento = status_data.status_pagamento]

\* A status update that reaches every installment of the addressed
\* installment's transaction.
update_installment_status_all(installment_id, status_data, current_user) ==
    LET found == {i \in installments :
                     /\ i.id = installment_id
                     /\ \E t \in transactions :
                           t.id = i.transacao_id /\ t.user_id = current_user}
    IN  IF found = {}
        THEN /\ response' = 404
             /\ UNCHANGED <<transactions, installments>>
        ELSE LET installment == CHOOSE i \in found : TRUE
             IN  /\ installments' =
                        {IF i.transacao_id = installment.transacao_id
                         THEN ApplyInstallmentUpdate(i, status_data)
                         ELSE i : i \in installments}
                 /\ UNCHANGED transactions
                 /\ response' = 200

update_installment_status(installment_id, status_data, current_user) ==
    LET found == {i \in installments :
                     /\ i.id = installment_id
                     /\ \E t \in transactions :
                           t.id = i.transacao_id /\ t.user_id = current_user}
    IN  IF found = {}
        THEN /\ response' = 404
             /\ UNCHANGED <<transactions, installments>>
        ELSE LET installment == CHOOSE i \in found : TRUE
                 updated == ApplyInstallmentUpdate(installment, status_data)
             IN  /\ installments' =
                        SessionCommit(installments \ {installment}, {updated})
                 /\ UNCHANGED transactions
                 /\ response' = 200

(***************************************************************************)
(* The store under requests of the bounded input space                     *)
(***************************************************************************)
Users == {1, 2}
ValorTotalReq == {0, 5}
NumParcelasReq == {1, 2, 49}
DataCompraReq == {Date(2024, 1, 31)}

TransactionCreateReqs ==
    [valor_total  : ValorTotalReq,
     descricao    : {"d1"},
     categoria    : {"A"},
     tipo         : TransactionType,
     data_compra  : DataCompraReq,
     num_parcelas : NumParcelasReq,
     notas        : {None}]

TransactionUpdateReqs ==
    {[descricao |-> None, categoria |-> None, notas |-> None],
     [descricao |-> "d2", categoria |-> "B", notas |-> "n2"]}

InstallmentUpdateReqs == [status_pagamento : {PENDENTE, PAGO}]

Init ==
    /\ plano = PlanoFixo
    /\ retorno = NaoChamado
    /\ transactions = {}
    /\ installments = {}
    /\ response = 0
    /\ goals = {}
    /\ body = NoBody
    /\ sessions = NoSessions

CreateTransaction ==
    /\ \E u \in Users, d \in TransactionCreateReqs : create_transaction(u, d)
    /\ body' = NoBody
    /\ UNCHANGED <<plano, retorno, goals, sessions>>

UpdateTransaction ==
    /\ \E u \in Users, id \in 1..MaxTxId, d \in TransactionUpdateReqs :
          update_transaction(id, d, u)
    /\ body' = NoBody
    /\ UNCHANGED <<plano, retorno, goals, sessions>>

DeleteTransaction ==
    /\ \E u \in Users, id \in 1..MaxTxId : delete_transaction(id, u)
    /\ body' = NoBody
    /\ UNCHANGED <<plano, retorno, goals, sessions>>

UpdateInstallmentStatus ==
    /\ \E u \in Users, id \in 1..MaxInstId, d \in InstallmentUpdateReqs :
          update_installment_status(id, d, u)
    /\ body' = NoBody
    /\ UNCHANGED <<plano, retorno, goals, sessions>>

Next ==
    \/ CreateTransaction
    \/ UpdateTransaction
    \/ DeleteTransaction
    \/ UpdateInstallmentStatus

Spec == Init /\ [][Next]_vars

PlanoValido ==
    /\ plano.valor_total > 0
    /\ plano.num_parcelas >= 1
    /\ plano.num_parcelas <= 48

Chamado == retorno.estado # "nao_chamado"

\* C1: for every valid plan the amounts of the returned records sum exactly,
\* to the cent, to the total amount of the plan.
C1_SumInvariant ==
    (Chamado /\ PlanoValido) =>
        /\ retorno.estado = "retornou"
        /\ LET ps == retorno.parcelas
               soma[k \in 0..Len(ps)] ==
                   IF k = 0 THEN 0 ELSE soma[k - 1] + ps[k].valor_parcela
           IN  soma[Len(ps)] = plano.valor_total

C1_Witness ==
    /\ retorno.estado = "retornou"
    /\ plano.valor_total = 100000
    /\ plano.num_parcelas = 3
    /\ retorno.parcelas[3].valor_parcela # retorno.parcelas[1].valor_parcela

\* C2: for every valid plan, record i (counted from 0) is due in the i-th
\* calendar month after the purchase month, on the purchase day when that
\* month has it and on the month's last day otherwise; the day is taken from
\* the purchase date, not from the previous due date (Jan 31 with count 3
\* gives Jan 31, Feb 28/29, Mar 31).
C2_DateSpacing ==
    (Chamado /\ PlanoValido) =>
        /\ Len(retorno.parcelas) = plano.num_parcelas
        /\ \A k \in 1..Len(retorno.parcelas) :
              LET d0 == plano.data_primeira_parcela
                  d  == retorno.parcelas[k].data_vencimento
              IN  /\ d.month \in 1..12
                  /\ 12 * d.year + d.month = 12 * d0.year + d0.month + (k - 1)
                  /\ d.day = IF d0.day <= DaysInMonth(d.year, d.month)
                             THEN d0.day
                             ELSE DaysInMonth(d.year, d.month)
        /\ (plano.data_primeira_parcela.month = 1
             /\ plano.data_primeira_parcela.day = 31
             /\ plano.num_parcelas = 3) =>
              LET y == plano.data_primeira_parcela.year
              IN  /\ retorno.parcelas[1].data_vencimento = Date(y, 1, 31)
                  /\ retorno.parcelas[2].data_vencimento =
                        Date(y, 2, IF y = 2024 THEN 29 ELSE 28)
                  /\ retorno.parcelas[3].data_vencimento = Date(y, 3, 31)

C2_Witness ==
    /\ retorno.estado = "retornou"
    /\ plano.data_primeira_parcela = Date(2024, 1, 31)
    /\ plano.num_parcelas = 3
    /\ retorno.parcelas[2].data_vencimento = Date(2024, 2, 29)
    /\ retorno.parcelas[3].data_vencimento = Date(2024, 3, 31)

\* C3: for every valid plan there is a base amount, the total divided by the
\* count and rounded half-up to the cent, that every record but the last
\* carries, and the last record carries base + (total - base * count)
\* (1000.00 in 3 gives 333.33, 333.33, 333.34).
C3_RemainderPlacement ==
    (Chamado /\ PlanoValido) =>
        LET n  == plano.num_parcelas
            t  == plano.valor_total
            ps == retorno.parcelas
        IN  /\ Len(ps) = n
            /\ \E base \in 0..t :
                  /\ 2 * base * n <= 2 * t + n
                  /\ 2 * t + n < 2 * (base + 1) * n
                  /\ \A k \in 1..(n - 1) : ps[k].valor_parcela = base
                  /\ ps[n].valor_parcela = base + (t - base * n)
            /\ (t = 100000 /\ n = 3) =>
                  /\ ps[1].valor_parcela = 33333
                  /\ ps[2].valor_parcela = 33333
                  /\ ps[3].valor_parcela = 33334

C3_Witness ==
    /\ retorno.estado = "retornou"
    /\ plano.valor_total = 5
    /\ plano.num_parcelas = 3
    /\ retorno.parcelas[1].valor_parcela = 2
    /\ retorno.parcelas[3].valor_parcela = 1

\* C4: for every valid plan the scheduler returns exactly count records in
\* order, the i-th (from 1) numbered i, each carrying the plan's count and
\* the status pending.
C4_SequentialNumbering ==
    (Chamado /\ PlanoValido) =>
        /\ retorno.estado = "retornou"
        /\ Len(retorno.parcelas) = plano.num_parcelas
        /\ \A k \in 1..Len(retorno.parcelas) :
              /\ retorno.parcelas[k].numero_parcela = k
              /\ retorno.parcelas[k].total_parcelas = plano.num_parcelas
              /\ retorno.parcelas[k].status_pagamento = PENDENTE

C4_Witness ==
    /\ retorno.estado = "retornou"
    /\ plano.num_parcelas = 48
    /\ retorno.parcelas[48].numero_parcela = 48

\* C5: a call with count < 1, count > 48 or total <= 0 raises ValueError and
\* yields no record at all, whatever the other arguments are.
C5_Rejection ==
    (Chamado /\ ~PlanoValido) =>
        /\ retorno.estado = "ValueError"
        /\ retorno.parcelas = << >>

C5_Witness ==
    /\ retorno.estado = "ValueError"
    /\ plano.valor_total = 0
    /\ plano.num_parcelas = 5

\* C6: with count 1 and a positive total the scheduler returns exactly one
\* record, whose amount is the total and whose due date is the purchase date.
C6_DegeneratePlan ==
    (Chamado /\ plano.num_parcelas = 1 /\ plano.valor_total > 0) =>
        /\ retorno.estado = "retornou"
        /\ Len(retorno.parcelas) = 1
        /\ retorno.parcelas[1].valor_parcela = plano.valor_total
        /\ retorno.parcelas[1].data_vencimento = plano.data_primeira_parcela

C6_Witness ==
    /\ retorno.estado = "retornou"
    /\ plano.num_parcelas = 1
    /\ plano.valor_total = 15000
    /\ retorno.parcelas[1].valor_parcela = 15000

(***************************************************************************)
(* Properties of the store                                                 *)
(***************************************************************************)
InstallmentsOf(rows, transacao_id) ==
    {i \in rows : i.transacao_id = transacao_id}

\* C7: a committed credit transaction always comes with exactly the
\* installments the scheduler generates for it, a committed installment
\* always comes with its credit transaction, and a creation whose installment
\* generation fails (answered 500) commits nothing at all.
C7_AllOrNothing ==
    /\ [](\A t \in transactions :
            t.tipo = SAIDA_CREDITO =>
                LET r == calcular_datas_parcelas(t.data_compra, t.num_parcelas,
                                                 t.valor_total)
                IN  /\ r.estado = "retornou"
                    /\ {<<i.numero_parcela, i.total_parcelas, i.valor_parcela,
                           i.data_vencimento>> :
                            i \in InstallmentsOf(installments, t.id)}
                         = {<<r.parcelas[k].numero_parcela,
                              r.parcelas[k].total_parcelas,
                              r.parcelas[k].valor_parcela,
                              r.parcelas[k].data_vencimento>> :
                               k \in 1..Len(r.parcelas)})
    /\ [](\A i \in installments :
            \E t \in transactions :
                t.id = i.transacao_id /\ t.tipo = SAIDA_CREDITO)
    /\ [][response' = 500 =>
            (transactions' = transactions /\ installments' = installments)]_vars

C7_Witness ==
    /\ response = 500
    /\ \E t \in transactions :
          /\ t.tipo = SAIDA_CREDITO
          /\ t.num_parcelas = 2
          /\ Cardinality(InstallmentsOf(installments, t.id)) = 2

C9_CascadeDelete ==
    /\ [][\A t \in transactions :
            (\A t2 \in transactions' : t2.id # t.id) =>
                /\ InstallmentsOf(installments', t.id) = {}
                /\ {i \in installments' : i.transacao_id # t.id}
                     = {i \in installments : i.transacao_id # t.id}]_vars
    /\ [](\A i \in installments :
            \E t \in transactions : t.id = i.transacao_id)

C9_Witness ==
    /\ response = 204
    /\ Cardinality(transactions) = 1
    /\ \E t \in transactions :
          /\ t.id = 2
          /\ InstallmentsOf(installments, t.id) # {}

\* C10: no step changes the owner, valor_total, tipo, num_parcelas or
\* data_compra of a transaction that stays stored, nor the transaction,
\* number, count, amount or due date of an installment that stays stored; a
\* step changes the status of at most one installment and then changes no
\* transaction, and a step that changes a transaction's description,
\* category or notes changes no installment.
C10_NeverRegenerated ==
    [][/\ \A t \in transactions : \A t2 \in transactions' :
            t2.id = t.id =>
                /\ t2.user_id = t.user_id
                /\ t2.valor_total = t.valor_total
                /\ t2.tipo = t.tipo
                /\ t2.num_parcelas = t.num_parcelas
                /\ t2.data_compra = t.data_compra
       /\ \A i \in installments : \A i2 \in installments' :
            i2.id = i.id =>
                /\ i2.transacao_id = i.transacao_id
                /\ i2.numero_parcela = i.numero_parcela
                /\ i2.total_parcelas = i.total_parcelas
                /\ i2.valor_parcela = i.valor_parcela
                /\ i2.data_vencimento = i.data_vencimento
       /\ LET mudou == {i \in installments :
                           \E i2 \in installments' :
                               /\ i2.id = i.id
                               /\ i2.status_pagamento # i.status_pagamento}
          IN  /\ Cardinality(mudou) <= 1
              /\ mudou # {} => transactions' = transactions
       /\ (\E t \in transactions : \E t2 \in transactions' :
              t2.id = t.id /\ t2 # t) => installments' = installments]_vars

C10_Witness ==
    /\ response = 200
    /\ \E t \in transactions :
          /\ t.descricao = "d2" /\ t.categoria = "B" /\ t.notas = "n2"
          /\ \E i, j \in InstallmentsOf(installments, t.id) :
                /\ i.status_pagamento = PAGO
                /\ j.status_pagamento = PENDENTE

(***************************************************************************)
(* routers/dashboard.py.  Percentages are kept in hundredths of a percent  *)
(* (62.50 % is 6250).  An Optional number is a set with at most one        *)
(* element, the empty set standing for None.                               *)
(***************************************************************************)
\* A period test that looks at the month alone.
InPeriodMonthOnly(d, mes, ano) == d.month = mes

\* extract('month', d) == mes and extract('year', d) == ano
InPeriod(d, mes, ano) == d.month = mes /\ d.year = ano

\* coalesce(sum(Transaction.valor_total), 0) over the selected rows
RECURSIVE SumValorTotal(_)
SumValorTotal(rows) ==
    IF rows = {} THEN 0
    ELSE LET r == CHOOSE x \in rows : TRUE
         IN  r.valor_total + SumValorTotal(rows \ {r})

\* coalesce(sum(Installment.valor_parcela), 0) over the selected rows
RECURSIVE SumValorParcela(_)
SumValorParcela(rows) ==
    IF rows = {} THEN 0
    ELSE LET r == CHOOSE x \in rows : TRUE
         IN  r.valor_parcela + SumValorParcela(rows \ {r})

\* coalesce(sum(SavingsGoal.valor_atual), 0) over the selected rows
RECURSIVE SumValorAtual(_)
SumValorAtual(rows) ==
    IF rows = {} THEN 0
    ELSE LET r == CHOOSE x \in rows : TRUE
         IN  r.valor_atual + SumValorAtual(rows \ {r})

\* round(x, 2) of the float num / den taken in hundredths: the nearest
\* integer, an exact half going to the even neighbour.
Round2(num, den) ==
    LET n == IF den < 0 THEN -num ELSE num
        d == Abs(den)
        q == n \div d
        r == n % d
    IN  IF 2 * r < d THEN q
        ELSE IF 2 * r > d THEN q + 1
        ELSE IF q % 2 = 0 THEN q ELSE q + 1

\* A percentage cut to two decimals instead of rounded.
Round2Truncated(num, den) ==
    LET n == IF den < 0 THEN -num ELSE num
    IN  n \div Abs(den)

\* A query check without the floor of the year.
DashboardQueryValidNoFloor(mes, ano) == mes >= 1 /\ mes <= 12

\* mes: Query(ge=1, le=12), ano: Query(ge=2000)
DashboardQueryValid(mes, ano) == mes >= 1 /\ mes <= 12 /\ ano >= 2000

\* Income of every month of the year.
TotalEntradasDoAno(mes, ano, current_user) ==
    SumValorTotal({t \in transactions :
                      /\ t.user_id = current_user
                      /\ t.tipo = ENTRADA
                      /\ t.data_compra.year = ano})

\* The income query of get_dashboard_summary.
TotalEntradas(mes, ano, current_user) ==
    SumValorTotal({t \in transactions :
                      /\ t.user_id = current_user
                      /\ t.tipo = ENTRADA
                      /\ InPeriod(t.data_compra, mes, ano)})

\* A debit query that takes every expense, credit purchases included.
TotalDebitoComCredito(mes, ano, current_user) ==
    SumValorTotal({t \in transactions :
                      /\ t.user_id = current_user
                      /\ t.tipo # ENTRADA
                      /\ InPeriod(t.data_compra, mes, ano)})

\* The debit query of get_dashboard_summary.
TotalDebito(mes, ano, current_user) ==
    SumValorTotal({t \in transactions :
                      /\ t.user_id = current_user
                      /\ t.tipo = SAIDA_DEBITO
                      /\ InPeriod(t.data_compra, mes, ano)})

\* An installment query that leaves out the installments already paid.
TotalParcelasPendentes(mes, ano, current_user) ==
    SumValorParcela({i \in installments :
                        /\ \E t \in transactions :
                              t.id = i.transacao_id /\ t.user_id = current_user
                        /\ InPeriod(i.data_vencimento, mes, ano)
                        /\ i.status_pagamento = PENDENTE})

\* The installment query of get_dashboard_summary (Installment joined to
\* Transaction).
TotalParcelas(mes, ano, current_user) ==
    SumValorParcela({i \in installments :
                        /\ \E t \in transactions :
                              t.id = i.transacao_id /\ t.user_id = current_user
                        /\ InPeriod(i.data_vencimento, mes, ano)})

\* A savings query without the is_active filter.
TotalGuardadoTodas(current_user) ==
    SumValorAtual({g \in goals : g.user_id = current_user})

\* The savings query of get_dashboard_summary.
TotalGuardado(current_user) ==
    SumValorAtual({g \in goals : g.user_id = current_user /\ g.is_active})

\* The balance with the operands exchanged.
SaldoDisponivelInvertido(total_entradas, total_saidas) ==
    total_saidas - total_entradas

\* saldo_disponivel = total_entradas - total_saidas
SaldoDisponivel(total_entradas, total_saidas) ==
    total_entradas - total_saidas

\* A rate that is 0 instead of None without income.
variacao_percentual_zero(total_entradas, total_saidas) ==
    IF total_entradas > 0
    THEN {Round2((total_entradas - total_saidas) * 10000, total_entradas)}
    ELSE {0}

\* DashboardSummary.variacao_percentual: None without income.
variacao_percentual(total_entradas, total_saidas) ==
    IF total_entradas > 0
    THEN {Round2((total_entradas - total_saidas) * 10000, total_entradas)}
    ELSE {}

\* The DashboardSummary returned for a valid query; current_user records who
\* asked.
get_dashboard_summary(mes, ano, current_user) ==
    LET total_entradas   == TotalEntradas(mes, ano, current_user)
        total_debito     == TotalDebito(mes, ano, current_user)
        total_parcelas   == TotalParcelas(mes, ano, current_user)
        total_saidas     == total_debito + total_parcelas
        total_guardado   == TotalGuardado(current_user)
        saldo_disponivel == SaldoDisponivel(total_entradas, total_saidas)
    IN  [kind                |-> "summary",
         current_user        |-> current_user,
         mes                 |-> mes,
         ano                 |-> ano,
         total_entradas      |-> total_entradas,
         total_saidas        |-> total_saidas,
         total_guardado      |-> total_guardado,
         saldo_disponivel    |-> saldo_disponivel,
         variacao_percentual |->
             variacao_percentual(total_entradas, total_saidas)]

\* The debit rows of the category query.
DebitRows(mes, ano, current_user) ==
    {t \in transactions :
        /\ t.user_id = current_user
        /\ t.tipo = SAIDA_DEBITO
        /\ InPeriod(t.data_compra, mes, ano)}

\* Installment rows selected by the purchase date of their transaction.
CreditRowsByPurchase(mes, ano, current_user) ==
    {i \in installments :
        \E t \in transactions :
            /\ t.id = i.transacao_id
            /\ t.user_id = current_user
            /\ InPeriod(t.data_compra, mes, ano)}

\* The installment rows of the category query (Transaction joined to
\* Installment).
CreditRows(mes, ano, current_user) ==
    {i \in installments :
        /\ \E t \in transactions :
              t.id = i.transacao_id /\ t.user_id = current_user
        /\ InPeriod(i.data_vencimento, mes, ano)}

\* The category of the transaction an installment belongs to.
CategoriaDe(i) ==
    (CHOOSE t \in transactions : t.id = i.transacao_id).categoria

\* The orders in which a GROUP BY without ORDER BY may return its groups.
GroupOrders(cats) ==
    {o \in [1..Cardinality(cats) -> cats] : \A c \in cats : \E k \in DOMAIN o : o[k] = c}

\* category_totals[cat] = category_totals.get(cat, 0) + total on a dict that
\* keeps insertion order, held as a sequence of entries.
DictAdd(dict, cat, total) ==
    IF \E k \in DOMAIN dict : dict[k].categoria = cat
    THEN [k \in DOMAIN dict |->
            IF dict[k].categoria = cat
            THEN [dict[k] EXCEPT !.valor = @ + total]
            ELSE dict[k]]
    ELSE Append(dict, [categoria |-> cat, valor |-> total])

\* The two loops that fill category_totals from the grouped query results.
RECURSIVE DictAddAll(_, _)
DictAddAll(dict, grupos) ==
    IF grupos = << >> THEN dict
    ELSE DictAddAll(DictAdd(dict, Head(grupos).categoria, Head(grupos).valor),
                    Tail(grupos))

\* sum(category_totals.values())
RECURSIVE SumValues(_)
SumValues(dict) ==
    IF dict = << >> THEN 0 ELSE Head(dict).valor + SumValues(Tail(dict))

\* sorted(category_totals.items(), key=lambda x: x[1], reverse=True): a
\* stable sort, entries of equal amount stay in insertion order.
RECURSIVE SortedByValueDesc(_)
SortedByValueDesc(dict) ==
    IF dict = << >> THEN << >>
    ELSE LET x    == dict[Len(dict)]
             rest == SortedByValueDesc(SubSeq(dict, 1, Len(dict) - 1))
             k    == Cardinality({j \in DOMAIN rest : rest[j].valor >= x.valor})
         IN  SubSeq(rest, 1, k) \o <<x>> \o SubSeq(rest, k + 1, Len(rest))

\* The percentage of one category, cut instead of rounded.
PercentualTruncado(valor, grand_total) ==
    Round2Truncated(valor * 10000, grand_total)

\* round((float(valor) / float(grand_total)) * 100, 2)
Percentual(valor, grand_total) == Round2(valor * 10000, grand_total)

\* The DashboardCategorySummary returned for a valid query when the two
\* grouped queries return their groups in the orders debit_order and
\* credit_order; current_user records who asked.
get_expenses_by_category(mes, ano, current_user, debit_order, credit_order) ==
    LET debit_rows  == DebitRows(mes, ano, current_user)
        credit_rows == CreditRows(mes, ano, current_user)
        debit_by_category ==
            [k \in DOMAIN debit_order |->
                [categoria |-> debit_order[k],
                 valor |-> SumValorTotal({t \in debit_rows :
                                            t.categoria = debit_order[k]})]]
        credit_by_category ==
            [k \in DOMAIN credit_order |->
                [categoria |-> credit_order[k],
                 valor |-> SumValorParcela({i \in credit_rows :
                                              CategoriaDe(i) = credit_order[k]})]]
        category_totals ==
            DictAddAll(DictAddAll(<< >>, debit_by_category), credit_by_category)
        soma        == SumValues(category_totals)
        grand_total == IF soma = 0 THEN 100 ELSE soma
        ordenadas   == SortedByValueDesc(category_totals)
    IN  [kind         |-> "categories",
         current_user |-> current_user,
         mes          |-> mes,
         ano          |-> ano,
         total        |-> IF grand_total # 100 THEN grand_total ELSE 0,
         categorias   |->
             [k \in DOMAIN ordenadas |->
                 [categoria   |-> ordenadas[k].categoria,
                  valor_total |-> ordenadas[k].valor,
                  percentual  |-> Percentual(ordenadas[k].valor, grand_total)]]]

(***************************************************************************)
(* The dashboard over the transaction store.  update_transaction is left   *)
(* out: it reaches no category that a creation cannot give, and the        *)
(* dashboard reads neither description nor notes.                          *)
(***************************************************************************)
DashMesReq == {1, 2, 13}
DashAnoReq == {1999, 2024}

DashCreateReq(tipo, valor_total, categoria, num_parcelas) ==
    [valor_total  |-> valor_total,
     descricao    |-> "d1",
     categoria    |-> categoria,
     tipo         |-> tipo,
     data_compra  |-> Date(2024, 1, 31),
     num_parcelas |-> num_parcelas,
     notas        |-> None]

DashCreateReqs ==
    {DashCreateReq(ENTRADA, 3, "A", 1),
     DashCreateReq(SAIDA_DEBITO, 0, "A", 1),
     DashCreateReq(SAIDA_DEBITO, 3, "B", 1),
     DashCreateReq(SAIDA_DEBITO, 4, "A", 1),
     DashCreateReq(SAIDA_DEBITO, 4, "B", 1),
     DashCreateReq(SAIDA_DEBITO, 100, "A", 1),
     DashCreateReq(SAIDA_CREDITO, 5, "A", 2),
     DashCreateReq(SAIDA_CREDITO, 5, "B", 2)}

DashCreateTransaction ==
    /\ \E u \in Users, d \in DashCreateReqs : create_transaction(u, d)
    /\ body' = NoBody
    /\ UNCHANGED <<plano, retorno, goals, sessions>>

\* GET /dashboard/summary?mes=&ano= by user u.
GetDashboardSummaryFor(u, mes, ano) ==
    /\ IF DashboardQueryValid(mes, ano)
       THEN /\ response' = 200
            /\ body' = get_dashboard_summary(mes, ano, u)
       ELSE /\ response' = 422
            /\ body' = NoBody
    /\ UNCHANGED <<plano, retorno, transactions, installments, goals, sessions>>

GetDashboardSummary ==
    \E u \in Users, mes \in DashMesReq, ano \in DashAnoReq :
        GetDashboardSummaryFor(u, mes, ano)

\* GET /dashboard/categories?mes=&ano= by user u.
GetExpensesByCategoryFor(u, mes, ano) ==
    /\ IF DashboardQueryValid(mes, ano)
       THEN \E debit_order \in
                 GroupOrders({t.categoria : t \in DebitRows(mes, ano, u)}),
               credit_order \in
                 GroupOrders({CategoriaDe(i) : i \in CreditRows(mes, ano, u)}) :
               /\ response' = 200
               /\ body' = get_expenses_by_category(mes, ano, u,
                                                   debit_order, credit_order)
       ELSE /\ response' = 422
            /\ body' = NoBody
    /\ UNCHANGED <<plano, retorno, transactions, installments, goals, sessions>>

GetExpensesByCategory ==
    \E u \in Users, mes \in DashMesReq, ano \in DashAnoReq :
        GetExpensesByCategoryFor(u, mes, ano)

NextDash ==
    \/ DashCreateTransaction
    \/ DeleteTransaction
    \/ UpdateInstallmentStatus
    \/ GetDashboardSummary
    \/ GetExpensesByCategory

SpecDash == Init /\ [][NextDash]_vars

(***************************************************************************)
(* routers/savings.py.  A row of "savings_goals" keeps the fields the      *)
(* handlers and the dashboard read: id, user_id, valor_meta, valor_atual   *)
(* and is_active.  An absent Optional field of a request is the empty set. *)
(***************************************************************************)
MaxGoalId == 2
MaxSaved == 1

\* SavingsGoalCreate: valor_meta gt=0, valor_inicial ge=0
SavingsGoalCreateValid(goal_data) ==
    goal_data.valor_meta > 0 /\ goal_data.valor_inicial >= 0

\* An update check that lets a target of 0 through.
SavingsGoalUpdateValidZero(goal_data) ==
    \A v \in goal_data.valor_meta : v >= 0

\* SavingsGoalUpdate: valor_meta Optional, gt=0
SavingsGoalUpdateValid(goal_data) ==
    \A v \in goal_data.valor_meta : v > 0

\* SavingsGoalDeposit / SavingsGoalWithdraw: valor gt=0
SavingsGoalValorValid(movimento) == movimento.valor > 0

\* A goal lookup by id alone.
GoalsFoundAnyUser(goal_id, current_user) ==
    {g \in goals : g.id = goal_id}

\* db.query(SavingsGoal).filter(id == goal_id, user_id == current_user.id)
GoalsFound(goal_id, current_user) ==
    {g \in goals : g.id = goal_id /\ g.user_id = current_user}

create_savings_goal(goal_data, current_user) ==
    IF ~SavingsGoalCreateValid(goal_data)
    THEN /\ response' = 422
         /\ UNCHANGED goals
    ELSE /\ NextId(goals) <= MaxGoalId
         /\ goals' = SessionCommit(goals,
                        {[id          |-> NextId(goals),
                          user_id     |-> current_user,
                          valor_meta  |-> goal_data.valor_meta,
                          valor_atual |-> goal_data.valor_inicial,
                          is_active   |-> TRUE]})
         /\ response' = 201

update_savings_goal(goal_id, goal_data, current_user) ==
    IF ~SavingsGoalUpdateValid(goal_data)
    THEN /\ response' = 422
         /\ UNCHANGED goals
    ELSE IF GoalsFound(goal_id, current_user) = {}
    THEN /\ response' = 404
         /\ UNCHANGED goals
    ELSE LET goal == CHOOSE g \in GoalsFound(goal_id, current_user) : TRUE
             novo == IF goal_data.valor_meta # {}
                     THEN [goal EXCEPT !.valor_meta =
                              CHOOSE v \in goal_data.valor_meta : TRUE]
                     ELSE goal
         IN  /\ goals' = SessionCommit(goals \ {goal}, {novo})
             /\ response' = 200

delete_savings_goal(goal_id, current_user) ==
    IF GoalsFound(goal_id, current_user) = {}
    THEN /\ response' = 404
         /\ UNCHANGED goals
    ELSE /\ goals' = goals \ GoalsFound(goal_id, current_user)
         /\ response' = 204

\* A deposit that does not look at is_active.
deposit_to_goal_any(goal_id, deposit, current_user) ==
    IF ~SavingsGoalValorValid(deposit)
    THEN /\ response' = 422
         /\ UNCHANGED goals
    ELSE IF GoalsFound(goal_id, current_user) = {}
    THEN /\ response' = 404
         /\ UNCHANGED goals
    ELSE LET goal == CHOOSE g \in GoalsFound(goal_id, current_user) : TRUE
         IN  /\ goal.valor_atual + deposit.valor <= MaxSaved
             /\ goals' = SessionCommit(goals \ {goal},
                            {[goal EXCEPT !.valor_atual = @ + deposit.valor]})
             /\ response' = 200

deposit_to_goal(goal_id, deposit, current_user) ==
    IF ~SavingsGoalValorValid(deposit)
    THEN /\ response' = 422
         /\ UNCHANGED goals
    ELSE IF GoalsFound(goal_id, current_user) = {}
    THEN /\ response' = 404
         /\ UNCHANGED goals
    ELSE LET goal == CHOOSE g \in GoalsFound(goal_id, current_user) : TRUE
         IN  IF ~goal.is_active
             THEN /\ response' = 400
                  /\ UNCHANGED goals
             ELSE /\ goal.valor_atual + deposit.valor <= MaxSaved
                  /\ goals' = SessionCommit(goals \ {goal},
                                 {[goal EXCEPT !.valor_atual =
                                      @ + deposit.valor]})
                  /\ response' = 200

withdraw_from_goal(goal_id, withdraw, current_user) ==
    IF ~SavingsGoalValorValid(withdraw)
    THEN /\ response' = 422
         /\ UNCHANGED goals
    ELSE IF GoalsFound(goal_id, current_user) = {}
    THEN /\ response' = 404
         /\ UNCHANGED goals
    ELSE LET goal          == CHOOSE g \in GoalsFound(goal_id, current_user) : TRUE
             current_value == goal.valor_atual
         IN  IF withdraw.valor > current_value
             THEN /\ response' = 400
                  /\ UNCHANGED goals
             ELSE /\ goals' = SessionCommit(goals \ {goal},
                                 {[goal EXCEPT !.valor_atual =
                                      current_value - withdraw.valor]})
                  /\ response' = 200

complete_goal(goal_id, current_user) ==
    IF GoalsFound(goal_id, current_user) = {}
    THEN /\ response' = 404
         /\ UNCHANGED goals
    ELSE LET goal == CHOOSE g \in GoalsFound(goal_id, current_user) : TRUE
         IN  /\ goals' = SessionCommit(goals \ {goal},
                            {[goal EXCEPT !.is_active = FALSE]})
             /\ response' = 200

(***************************************************************************)
(* The savings goals and the dashboard summary.                            *)
(***************************************************************************)
GoalIdReq == 1..MaxGoalId
SavingsGoalCreateReqs == [valor_meta : {0, 2}, valor_inicial : {-1, 0, 1}]
SavingsGoalUpdateReqs == [valor_meta : {{}, {0}, {3}}]
SavingsGoalValorReqs == [valor : {0, 1, 2}]

CreateSavingsGoal ==
    /\ \E u \in Users, d \in SavingsGoalCreateReqs : create_savings_goal(d, u)
    /\ body' = NoBody
    /\ UNCHANGED <<plano, retorno, transactions, installments, sessions>>

UpdateSavingsGoal ==
    /\ \E u \in Users, id \in GoalIdReq, d \in SavingsGoalUpdateReqs :
          update_savings_goal(id, d, u)
    /\ body' = NoBody
    /\ UNCHANGED <<plano, retorno, transactions, installments, sessions>>

DeleteSavingsGoal ==
    /\ \E u \in Users, id \in GoalIdReq : delete_savings_goal(id, u)
    /\ body' = NoBody
    /\ UNCHANGED <<plano, retorno, transactions, installments, sessions>>

DepositToGoal ==
    /\ \E u \in Users, id \in GoalIdReq, d \in SavingsGoalValorReqs :
          deposit_to_goal(id, d, u)
    /\ body' = NoBody
    /\ UNCHANGED <<plano, retorno, transactions, installments, sessions>>

WithdrawFromGoal ==
    /\ \E u \in Users, id \in GoalIdReq, d \in SavingsGoalValorReqs :
          withdraw_from_goal(id, d, u)
    /\ body' = NoBody
    /\ UNCHANGED <<plano, retorno, transactions, installments, sessions>>

CompleteGoal ==
    /\ \E u \in Users, id \in GoalIdReq : complete_goal(id, u)
    /\ body' = NoBody
    /\ UNCHANGED <<plano, retorno, transactions, installments, sessions>>

NextSav ==
    \/ CreateSavingsGoal
    \/ UpdateSavingsGoal
    \/ DeleteSavingsGoal
    \/ DepositToGoal
    \/ WithdrawFromGoal
    \/ CompleteGoal
    \/ GetDashboardSummary

SpecSav == Init /\ [][NextSav]_vars

(***************************************************************************)
(* Two users on one store.  User 1 has posted one credit purchase and      *)
(* opened one goal; from there every request is made by user 2, with any   *)
(* id, its own or not.                                                     *)
(***************************************************************************)
UserA == 1
UserB == 2

\* The TransactionListItem rows of list_transactions without filters; every
\* purchase of the model has the same date, so their order is left open.
list_transactions(current_user) ==
    {[id           |-> t.id,
      descricao    |-> t.descricao,
      categoria    |-> t.categoria,
      tipo         |-> t.tipo,
      valor_total  |-> t.valor_total,
      data_compra  |-> t.data_compra,
      num_parcelas |-> t.num_parcelas,
      status       |->
          IF t.tipo = ENTRADA THEN "RECEBIDO"
          ELSE IF t.tipo = SAIDA_DEBITO THEN "CONFIRMADO"
          ELSE IF \E i \in InstallmentsOf(installments, t.id) :
                      i.status_pagamento = PENDENTE
               THEN "PENDENTE" ELSE "CONFIRMADO"] :
        t \in {x \in transactions : x.user_id = current_user}}

\* The rows of list_savings_goals(active_only).
list_savings_goals(active_only, current_user) ==
    {g \in goals : g.user_id = current_user /\ (active_only => g.is_active)}

\* The rows of get_installments_by_month.
get_installments_by_month(mes, ano, current_user) ==
    {i \in installments :
        /\ \E t \in transactions :
              t.id = i.transacao_id /\ t.user_id = current_user
        /\ InPeriod(i.data_vencimento, mes, ano)}

ScopeCreateReqs ==
    {DashCreateReq(SAIDA_DEBITO, 4, "A", 1),
     DashCreateReq(SAIDA_CREDITO, 5, "B", 1)}
ScopeTransactionUpdateReqs ==
    {[descricao |-> "d2", categoria |-> "B", notas |-> "n2"]}
ScopeInstallmentUpdateReqs == [status_pagamento : {PAGO}]
ScopeGoalCreateReqs == [valor_meta : {2}, valor_inicial : {1}]
ScopeGoalUpdateReqs == [valor_meta : {{3}}]
ScopeGoalValorReqs == [valor : {1, 2}]

\* The store after user 1 posted a credit purchase of 0.05 in one installment
\* and opened a goal holding 0.01.
InitScope ==
    /\ plano = PlanoFixo
    /\ retorno = NaoChamado
    /\ response = 0
    /\ body = NoBody
    /\ sessions = NoSessions
    /\ transactions =
          {[id |-> 1, user_id |-> UserA, valor_total |-> 5,
            descricao |-> "d1", categoria |-> "A", tipo |-> SAIDA_CREDITO,
            data_compra |-> Date(2024, 1, 31), num_parcelas |-> 1,
            notas |-> None]}
    /\ LET r == calcular_datas_parcelas(Date(2024, 1, 31), 1, 5)
       IN  installments =
              {[id               |-> k,
                transacao_id     |-> 1,
                numero_parcela   |-> r.parcelas[k].numero_parcela,
                total_parcelas   |-> r.parcelas[k].total_parcelas,
                valor_parcela    |-> r.parcelas[k].valor_parcela,
                data_vencimento  |-> r.parcelas[k].data_vencimento,
                status_pagamento |-> PENDENTE] : k \in 1..Len(r.parcelas)}
    /\ goals = {[id |-> 1, user_id |-> UserA, valor_meta |-> 2,
                 valor_atual |-> 1, is_active |-> TRUE]}

ScopeCreateTransaction ==
    /\ \E d \in ScopeCreateReqs : create_transaction(UserB, d)
    /\ body' = NoBody
    /\ UNCHANGED <<plano, retorno, goals, sessions>>

ScopeUpdateTransaction ==
    /\ \E id \in 1..MaxTxId, d \in ScopeTransactionUpdateReqs :
          update_transaction(id, d, UserB)
    /\ body' = NoBody
    /\ UNCHANGED <<plano, retorno, goals, sessions>>

ScopeDeleteTransaction ==
    /\ \E id \in 1..MaxTxId : delete_transaction(id, UserB)
    /\ body' = NoBody
    /\ UNCHANGED <<plano, retorno, goals, sessions>>

ScopeUpdateInstallmentStatus ==
    /\ \E id \in 1..MaxInstId, d \in ScopeInstallmentUpdateReqs :
          update_installment_status(id, d, UserB)
    /\ body' = NoBody
    /\ UNCHANGED <<plano, retorno, goals, sessions>>

ScopeCreateSavingsGoal ==
    /\ \E d \in ScopeGoalCreateReqs : create_savings_goal(d, UserB)
    /\ body' = NoBody
    /\ UNCHANGED <<plano, retorno, transactions, installments, sessions>>

ScopeUpdateSavingsGoal ==
    /\ \E id \in GoalIdReq, d \in ScopeGoalUpdateReqs :
          update_savings_goal(id, d, UserB)
    /\ body' = NoBody
    /\ UNCHANGED <<plano, retorno, transactions, installments, sessions>>

ScopeDeleteSavingsGoal ==
    /\ \E id \in GoalIdReq : delete_savings_goal(id, UserB)
    /\ body' = NoBody
    /\ UNCHANGED <<plano, retorno, transactions, installments, sessions>>

ScopeDepositToGoal ==
    /\ \E id \in GoalIdReq, d \in ScopeGoalValorReqs :
          deposit_to_goal(id, d, UserB)
    /\ body' = NoBody
    /\ UNCHANGED <<plano, retorno, transactions, installments, sessions>>

ScopeWithdrawFromGoal ==
    /\ \E id \in GoalIdReq, d \in ScopeGoalValorReqs :
          withdraw_from_goal(id, d, UserB)
    /\ body' = NoBody
    /\ UNCHANGED <<plano, retorno, transactions, installments, sessions>>

ScopeCompleteGoal ==
    /\ \E id \in GoalIdReq : complete_goal(id, UserB)
    /\ body' = NoBody
    /\ UNCHANGED <<plano, retorno, transactions, installments, sessions>>

NextScope ==
    \/ ScopeCreateTransaction
    \/ ScopeUpdateTransaction
    \/ ScopeDeleteTransaction
    \/ ScopeUpdateInstallmentStatus
    \/ ScopeCreateSavingsGoal
    \/ ScopeUpdateSavingsGoal
    \/ ScopeDeleteSavingsGoal
    \/ ScopeDepositToGoal
    \/ ScopeWithdrawFromGoal
    \/ ScopeCompleteGoal

SpecScope == InitScope /\ [][NextScope]_vars

(***************************************************************************)
(* Properties of the dashboard.                                            *)
(***************************************************************************)
\* f[1] + ... + f[n]
RECURSIVE SumTo(_, _)
SumTo(f, n) == IF n = 0 THEN 0 ELSE f[n] + SumTo(f, n - 1)

\* The debit purchases of user u in the period, added up id by id.
DebitosDoPeriodo(mes, ano, u) ==
    SumTo([k \in 1..MaxTxId |->
              IF \E t \in transactions :
                    /\ t.id = k /\ t.user_id = u /\ t.tipo = SAIDA_DEBITO
                    /\ t.data_compra.month = mes /\ t.data_compra.year = ano
              THEN (CHOOSE t \in transactions : t.id = k).valor_total
              ELSE 0], MaxTxId)

\* The installments of user u due in the period, added up id by id.
ParcelasDoPeriodo(mes, ano, u) ==
    SumTo([k \in 1..MaxInstId |->
              IF \E i \in installments :
                    /\ i.id = k
                    /\ i.data_vencimento.month = mes
                    /\ i.data_vencimento.year = ano
                    /\ \E t \in transactions :
                          t.id = i.transacao_id /\ t.user_id = u
              THEN (CHOOSE i \in installments : i.id = k).valor_parcela
              ELSE 0], MaxInstId)

\* The income of user u purchased in the period, added up id by id.
EntradasDoPeriodo(mes, ano, u) ==
    SumTo([k \in 1..MaxTxId |->
              IF \E t \in transactions :
                    /\ t.id = k /\ t.user_id = u /\ t.tipo = ENTRADA
                    /\ t.data_compra.month = mes /\ t.data_compra.year = ano
              THEN (CHOOSE t \in transactions : t.id = k).valor_total
              ELSE 0], MaxTxId)

\* C11: the total expense of a summary is the debit totals purchased in the
\* period plus the installments due in the period, whatever their status and
\* whatever the purchase date of their transaction; the total of a credit
\* purchase is never added.
C11_ExpenseComposition ==
    body.kind = "summary" =>
        body.total_saidas =
            DebitosDoPeriodo(body.mes, body.ano, body.current_user)
            + ParcelasDoPeriodo(body.mes, body.ano, body.current_user)

\* A February summary that counts a paid installment of a January purchase.
C11_Witness ==
    /\ body.kind = "summary"
    /\ body.mes = 2
    /\ body.total_saidas = 2
    /\ \E i \in installments, t \in transactions :
          /\ t.id = i.transacao_id
          /\ t.user_id = body.current_user
          /\ t.tipo = SAIDA_CREDITO
          /\ t.data_compra.month = 1
          /\ i.data_vencimento.month = 2
          /\ i.status_pagamento = PAGO

\* The credit purchases created by the step: purchased in January, with an
\* installment due in February.
CreditoDeJaneiroCriado(t) ==
    /\ t \in transactions'
    /\ t \notin transactions
    /\ t.tipo = SAIDA_CREDITO
    /\ t.data_compra.month = 1
    /\ \E i \in installments' :
          /\ i.transacao_id = t.id
          /\ i.data_vencimento.month = 2
          /\ i.data_vencimento.year = t.data_compra.year

\* What the creation of t adds to the total expense of a period.
Contribuicao(t, mes) ==
    get_dashboard_summary(mes, t.data_compra.year, t.user_id)'.total_saidas
    - get_dashboard_summary(mes, t.data_compra.year, t.user_id).total_saidas

C13_AvailableBalance ==
    body.kind = "summary" =>
        /\ body.saldo_disponivel = body.total_entradas - body.total_saidas
        /\ body.saldo_disponivel =
              EntradasDoPeriodo(body.mes, body.ano, body.current_user)
              - DebitosDoPeriodo(body.mes, body.ano, body.current_user)
              - ParcelasDoPeriodo(body.mes, body.ano, body.current_user)

\* A summary with income 0.03 and a debit of 0.04: the balance is negative.
C13_Witness ==
    /\ body.kind = "summary"
    /\ body.total_entradas = 3
    /\ body.total_saidas = 4
    /\ body.saldo_disponivel = -1

\* The amounts of a breakdown added up.
SomaCategorias(categorias) ==
    SumTo([k \in DOMAIN categorias |-> categorias[k].valor_total],
          Len(categorias))

\* The percentages of a breakdown added up.
SomaPercentuais(categorias) ==
    SumTo([k \in DOMAIN categorias |-> categorias[k].percentual],
          Len(categorias))

\* C14: the amounts of a category breakdown add up to the total expense of
\* the summary of the same user and period.
C14_BreakdownMatchesSummary ==
    body.kind = "categories" =>
        SomaCategorias(body.categorias) =
            get_dashboard_summary(body.mes, body.ano,
                                  body.current_user).total_saidas

\* A January breakdown with a debit of 0.04 in one category and an
\* installment of 0.03 in the other.
C14_Witness ==
    /\ body.kind = "categories"
    /\ body.mes = 1
    /\ Len(body.categorias) = 2
    /\ body.categorias[1].valor_total = 4
    /\ body.categorias[2].valor_total = 3
    /\ \E i \in installments : i.data_vencimento.month = 2

\* C15: whenever the expenses of the period add up to 0, the breakdown has no
\* category and its total is 0.
C15_EmptyWhenZero ==
    (/\ body.kind = "categories"
     /\ get_dashboard_summary(body.mes, body.ano,
                              body.current_user).total_saidas = 0)
        => /\ body.categorias = << >>
           /\ body.total = 0

\* The place of a category name in ascending order.
CategoriaRank(categoria) == IF categoria = "A" THEN 1 ELSE 2

\* C16: a breakdown is ordered by amount descending and, among equal amounts,
\* by category name ascending.
C16_OrderedByAmountThenName ==
    body.kind = "categories" =>
        \A k \in 1..(Len(body.categorias) - 1) :
            \/ body.categorias[k].valor_total
                  > body.categorias[k + 1].valor_total
            \/ /\ body.categorias[k].valor_total
                     = body.categorias[k + 1].valor_total
               /\ CategoriaRank(body.categorias[k].categoria)
                     < CategoriaRank(body.categorias[k + 1].categoria)

\* C17: the rate of a summary is None exactly when the total income is 0;
\* otherwise it is (income - expense) / income * 100 to the nearest
\* hundredth, zero and negative values included.
C17_SavingsRate ==
    body.kind = "summary" =>
        /\ (body.variacao_percentual = {}) <=> (body.total_entradas = 0)
        /\ Cardinality(body.variacao_percentual) <= 1
        /\ \A v \in body.variacao_percentual :
              2 * Abs(v * body.total_entradas
                      - 10000 * (body.total_entradas - body.total_saidas))
                 <= body.total_entradas

\* Income 0.03 against a debit of 0.04: the rate is -33.33.
C17_Witness ==
    /\ body.kind = "summary"
    /\ body.total_entradas = 3
    /\ body.total_saidas = 4
    /\ body.variacao_percentual = {-3333}

\* C18: the total income of a summary is the sum of the income transactions
\* purchased in the period; expenses and installments never change it.
C18_IncomeTotal ==
    /\ [](body.kind = "summary" =>
             body.total_entradas =
                 EntradasDoPeriodo(body.mes, body.ano, body.current_user))
    /\ [][(/\ <<transactions, installments>>' # <<transactions, installments>>
           /\ {t \in transactions' : t.tipo = ENTRADA}
                 = {t \in transactions : t.tipo = ENTRADA})
             => \A u \in Users, mes \in DashMesReq, ano \in DashAnoReq :
                   TotalEntradas(mes, ano, u)' = TotalEntradas(mes, ano, u)]_vars

\* A January summary with income 0.03 next to a credit purchase whose
\* installment is counted as expense.
C18_Witness ==
    /\ body.kind = "summary"
    /\ body.mes = 1
    /\ body.total_entradas = 3
    /\ body.total_saidas = 3
    /\ \E t \in transactions :
          t.user_id = body.current_user /\ t.tipo = SAIDA_CREDITO

\* The amounts held by the active goals of user u, added up id by id.
GuardadoAtivo(u) ==
    SumTo([k \in 1..MaxGoalId |->
              IF \E g \in goals : g.id = k /\ g.user_id = u /\ g.is_active
              THEN (CHOOSE g \in goals : g.id = k).valor_atual
              ELSE 0], MaxGoalId)

C20_Percentages ==
    (/\ body.kind = "categories"
     /\ SomaCategorias(body.categorias) > 0)
        => /\ \A k \in DOMAIN body.categorias :
                 2 * Abs(body.categorias[k].percentual
                            * SomaCategorias(body.categorias)
                         - 10000 * body.categorias[k].valor_total)
                    <= SomaCategorias(body.categorias)
           /\ 2 * Abs(SomaPercentuais(body.categorias) - 10000)
                 <= Len(body.categorias)

\* 0.04 and 0.03 of 0.07: 57.14 % and 42.86 %.
C20_Witness ==
    /\ body.kind = "categories"
    /\ Len(body.categorias) = 2
    /\ body.categorias[1].percentual = 5714
    /\ body.categorias[2].percentual = 4286

\* C21: a summary or breakdown request whose month is outside 1..12 or whose
\* year is below 2000 is answered with 422 before any aggregation; no summary
\* or breakdown is ever returned for such a period and the store is left as it
\* was.  Every step is either such a refusal or not a request for an invalid
\* period.
C21_InvalidPeriodRejected ==
    /\ [](body.kind # "none" =>
             body.mes \in 1..12 /\ body.ano >= 2000)
    /\ [][\/ /\ response' = 422
             /\ body' = NoBody
             /\ UNCHANGED <<transactions, installments, goals>>
          \/ \A mes \in DashMesReq, ano \in DashAnoReq :
                ~(mes \in 1..12 /\ ano >= 2000) =>
                    \A u \in Users :
                        /\ ~GetDashboardSummaryFor(u, mes, ano)
                        /\ ~GetExpensesByCategoryFor(u, mes, ano)]_vars

\* A request for an invalid period was refused although the store holds a
\* positive debit; the creations of this specification never answer 422.
C21_Witness ==
    /\ response = 422
    /\ body = NoBody
    /\ \E t \in transactions : t.tipo = SAIDA_DEBITO /\ t.valor_total > 0

\* C22: a creation request whose total is not strictly positive, or whose
\* installment count is outside 1..48, is refused by validation before
\* anything is stored or the scheduler is called: no stored transaction has a
\* total of 0 or less or a count outside 1..48, and no creation ends in the
\* 500 of a scheduler error.
C22_ValidationRejects ==
    /\ \A t \in transactions :
          /\ t.valor_total > 0
          /\ t.num_parcelas >= 1
          /\ t.num_parcelas <= 48
    /\ response # 500

(***************************************************************************)
(* Properties of the two-user store.                                       *)
(***************************************************************************)
\* Everything the read endpoints return to user u: the transaction list, the
\* goals, and for every valid period the installments, the summary and the
\* breakdowns the grouped queries can produce.
ViewOf(u) ==
    <<list_transactions(u),
      list_savings_goals(FALSE, u),
      list_savings_goals(TRUE, u),
      [p \in {q \in DashMesReq \X DashAnoReq : DashboardQueryValid(q[1], q[2])} |->
          <<get_installments_by_month(p[1], p[2], u),
            get_dashboard_summary(p[1], p[2], u),
            {get_expenses_by_category(p[1], p[2], u, d, c) :
                d \in GroupOrders({t.categoria : t \in DebitRows(p[1], p[2], u)}),
                c \in GroupOrders({CategoriaDe(i) :
                                      i \in CreditRows(p[1], p[2], u)})}>>]>>

\* What the read endpoints return to user 1 for the store user 1 left: one
\* pending credit purchase of 0.05 due on 2024-01-31 and one active goal
\* holding 0.01.
ViewEsperadaA ==
    LET parcela == [id |-> 1, transacao_id |-> 1, numero_parcela |-> 1,
                    total_parcelas |-> 1, valor_parcela |-> 5,
                    data_vencimento |-> [year |-> 2024, month |-> 1, day |-> 31],
                    status_pagamento |-> PENDENTE]
        meta == [id |-> 1, user_id |-> UserA, valor_meta |-> 2,
                 valor_atual |-> 1, is_active |-> TRUE]
        resumo(mes, saidas) ==
            [kind |-> "summary", current_user |-> UserA, mes |-> mes,
             ano |-> 2024, total_entradas |-> 0, total_saidas |-> saidas,
             total_guardado |-> 1, saldo_disponivel |-> 0 - saidas,
             variacao_percentual |-> {}]
        categorias(mes, total, lista) ==
            [kind |-> "categories", current_user |-> UserA, mes |-> mes,
             ano |-> 2024, total |-> total, categorias |-> lista]
    IN  <<{[id |-> 1, descricao |-> "d1", categoria |-> "A",
            tipo |-> SAIDA_CREDITO, valor_total |-> 5,
            data_compra |-> [year |-> 2024, month |-> 1, day |-> 31],
            num_parcelas |-> 1, status |-> "PENDENTE"]},
          {meta},
          {meta},
          [p \in {<<1, 2024>>, <<2, 2024>>} |->
              IF p[1] = 1
              THEN <<{parcela}, resumo(1, 5),
                     {categorias(1, 5, <<[categoria |-> "A", valor_total |-> 5,
                                          percentual |-> 10000]>>)}>>
              ELSE <<{}, resumo(2, 0), {categorias(2, 0, << >>)}>>]>>

\* C23: a request of user 2 that names a transaction, an installment or a
\* goal of user 1 is answered 404 and changes nothing, and whatever user 2
\* does, the read endpoints keep returning to user 1 what they returned
\* before user 2 started.
C23_UserScoping ==
    /\ [](ViewOf(UserA) = ViewEsperadaA)
    /\ [][\A t \in transactions :
             (/\ t.user_id = UserA
              /\ UNCHANGED goals
              /\ \/ delete_transaction(t.id, UserB)
                 \/ \E d \in ScopeTransactionUpdateReqs :
                       update_transaction(t.id, d, UserB))
             => /\ response' = 404
                /\ UNCHANGED <<transactions, installments, goals>>]_vars
    /\ [][\A i \in get_installments_by_month(1, 2024, UserA) :
             (/\ UNCHANGED goals
              /\ \E d \in ScopeInstallmentUpdateReqs :
                    update_installment_status(i.id, d, UserB))
             => /\ response' = 404
                /\ UNCHANGED <<transactions, installments, goals>>]_vars
    /\ [][\A g \in goals :
             (/\ g.user_id = UserA
              /\ UNCHANGED <<transactions, installments>>
              /\ \/ delete_savings_goal(g.id, UserB)
                 \/ complete_goal(g.id, UserB)
                 \/ \E d \in ScopeGoalUpdateReqs :
                       update_savings_goal(g.id, d, UserB)
                 \/ \E d \in ScopeGoalValorReqs :
                       \/ deposit_to_goal(g.id, d, UserB)
                       \/ withdraw_from_goal(g.id, d, UserB))
             => /\ response' = 404
                /\ UNCHANGED <<transactions, installments, goals>>]_vars

\* A request of user 2 was answered 404 although every id of the three tables
\* is taken and user 2 owns a transaction, an installment and a goal: the id
\* it named belongs to user 1.
C23_Witness ==
    /\ response = 404
    /\ \A k \in 1..2 :
          /\ \E t \in transactions : t.id = k
          /\ \E i \in installments : i.id = k
          /\ \E g \in goals : g.id = k
    /\ \E t \in transactions : t.id = 1 /\ t.user_id = UserA
    /\ \E t \in transactions : t.id = 2 /\ t.user_id = UserB
    /\ \E g \in goals : g.id = 1 /\ g.user_id = UserA /\ g.valor_atual = 1
    /\ \E g \in goals : g.id = 2 /\ g.user_id = UserB
    /\ Cardinality(transactions) = 2
    /\ Cardinality(installments) = 2
    /\ Cardinality(goals) = 2

C25_DepositWithdrawErrors ==
    [][(body' = NoBody /\ response' \in {200, 400}) =>
          \A g \in goals, d \in {x \in SavingsGoalValorReqs : x.valor > 0} :
             /\ (/\ d.valor > g.valor_atual
                 /\ withdraw_from_goal(g.id, d, g.user_id))
                => response' = 400 /\ UNCHANGED goals
             /\ (/\ ~g.is_active
                 /\ deposit_to_goal(g.id, d, g.user_id))
                => response' = 400 /\ UNCHANGED goals
             /\ (/\ d.valor <= g.valor_atual
                 /\ withdraw_from_goal(g.id, d, g.user_id))
                => /\ response' = 200
                   /\ goals' = (goals \ {g})
                                  \cup {[g EXCEPT !.valor_atual = @ - d.valor]}]_vars

\* A completed goal still holding 0.01 right after a request refused with
\* 400.
C25_Witness ==
    /\ response = 400
    /\ body = NoBody
    /\ \E g \in goals : ~g.is_active /\ g.valor_atual = 1

(***************************************************************************)
(* Further properties of the scheduler.                                    *)
(***************************************************************************)
\* C26: for every valid plan every returned amount is 0 or more, the last one
\* included after it has taken the rounding remainder.
C26_NonNegativeAmounts ==
    (Chamado /\ PlanoValido) =>
        \A k \in DOMAIN retorno.parcelas :
            retorno.parcelas[k].valor_parcela >= 0

\* get_parcelas_do_mes: the records of the list due in the month and year.
get_parcelas_do_mes(parcelas, mes, ano) ==
    LET DoMes(p) == p.data_vencimento.month = mes /\ p.data_vencimento.year = ano
    IN  SelectSeq(parcelas, DoMes)

\* The months from year 0 to the month of a date.
MesCorrido(dt) == dt.year * 12 + (dt.month - 1)

\* Date order.
DataAntes(a, b) ==
    \/ a.year < b.year
    \/ a.year = b.year /\ a.month < b.month
    \/ a.year = b.year /\ a.month = b.month /\ a.day < b.day

\* C29: for every valid plan the due dates are strictly increasing and fall
\* in consecutive calendar months starting with the month of the first date,
\* so that the month of each record holds that record alone, also when the
\* first day is 29, 30 or 31 and later days are clamped.
C29_OnePerMonth ==
    (Chamado /\ PlanoValido) =>
        LET ps == retorno.parcelas
        IN  /\ Len(ps) = plano.num_parcelas
            /\ \A k \in DOMAIN ps :
                  /\ MesCorrido(ps[k].data_vencimento)
                        = MesCorrido(plano.data_primeira_parcela) + (k - 1)
                  /\ k > 1 => DataAntes(ps[k - 1].data_vencimento,
                                        ps[k].data_vencimento)
                  /\ get_parcelas_do_mes(ps, ps[k].data_vencimento.month,
                                         ps[k].data_vencimento.year) = <<ps[k]>>

\* Fourteen records from 2023-12-31: the third is clamped to 2024-02-29, the
\* fourth is back on the 31st, and the fourteenth is clamped in the next year.
C29_Witness ==
    /\ retorno.estado = "retornou"
    /\ plano.data_primeira_parcela = Date(2023, 12, 31)
    /\ plano.num_parcelas = 14
    /\ retorno.parcelas[2].data_vencimento = Date(2024, 1, 31)
    /\ retorno.parcelas[3].data_vencimento = Date(2024, 2, 29)
    /\ retorno.parcelas[4].data_vencimento = Date(2024, 3, 31)
    /\ retorno.parcelas[14].data_vencimento = Date(2025, 1, 31)

(***************************************************************************)
(* Further properties of the dashboard.                                    *)
(***************************************************************************)
\* C27: the total of a breakdown is the sum of the amounts of the categories
\* it lists, whatever the expenses of the period, a sum of exactly 1.00
\* included.
C27_TotalIsSumOfCategories ==
    body.kind = "categories" =>
        body.total = SomaCategorias(body.categorias)

\* The periods looked at: the 36 months of 2023, 2024 and 2025, numbered from
\* January 2023.
PeriodosEstudados == 36
MesDoPeriodo(k) == ((k - 1) % 12) + 1
AnoDoPeriodo(k) == 2023 + ((k - 1) \div 12)

\* What a step adds to the total expense user u is shown for the period.
ContribuicaoNoPeriodo(u, mes, ano) ==
    (TotalDebito(mes, ano, u) + TotalParcelas(mes, ano, u))'
    - (TotalDebito(mes, ano, u) + TotalParcelas(mes, ano, u))

\* C28: what the creation of a credit purchase adds to the total expense,
\* summed over all periods, is exactly its total; each of its installments
\* falls in exactly one period.
C28_CreditCountedOnce ==
    [][\A t \in transactions' :
          (t \notin transactions /\ t.tipo = SAIDA_CREDITO) =>
              /\ SumTo([k \in 1..PeriodosEstudados |->
                           ContribuicaoNoPeriodo(t.user_id, MesDoPeriodo(k),
                                                 AnoDoPeriodo(k))],
                       PeriodosEstudados) = t.valor_total
              /\ \A i \in InstallmentsOf(installments', t.id) :
                    Cardinality({k \in 1..PeriodosEstudados :
                                    InPeriod(i.data_vencimento, MesDoPeriodo(k),
                                             AnoDoPeriodo(k))}) = 1]_vars

\* A credit purchase of 0.05 was just created, with 0.03 due in January and
\* 0.02 due in February.
C28_Witness ==
    /\ response = 201
    /\ \E t \in transactions :
          /\ t.tipo = SAIDA_CREDITO
          /\ t.valor_total = 5
          /\ \E i, j \in InstallmentsOf(installments, t.id) :
                /\ i.data_vencimento.month = 1 /\ i.valor_parcela = 3
                /\ j.data_vencimento.month = 2 /\ j.valor_parcela = 2
                /\ i.status_pagamento = PENDENTE
                /\ j.status_pagamento = PENDENTE

\* ---------------------------------------------------------------------------
\* Concurrent deposits and withdrawals on one goal.
\*
\* get_db gives every request a session of its own (SessionLocal, autocommit
\* and autoflush off).  deposit_to_goal and withdraw_from_goal first load the
\* goal with a query, then assign goal.valor_atual a value computed from the
\* loaded one, then commit: the flush writes "UPDATE savings_goals SET
\* valor_atual = <that value>".  Neither handler locks the row
\* (no with_for_update) or lets the database do the addition, so between the
\* query of one request and its commit another request, served by another
\* worker on the same database, may run its own query or commit.  The two
\* steps of a request are therefore two actions here.
\* ---------------------------------------------------------------------------

MaxRequests == 2

\* The goal the concurrent requests all name: goal 1 of user 1, holding 0.01.
ConcGoal ==
    [id |-> 1, user_id |-> UserA, valor_meta |-> 2, valor_atual |-> 1,
     is_active |-> TRUE]

\* Valid SavingsGoalDeposit / SavingsGoalWithdraw bodies.
ConcValorReqs == [valor : {1, 2}]

\* A request that has not started: which handler, for which goal and user,
\* with which body.  "goal" is the row loaded in the request's session with
\* the handler's assignment applied (empty before the query), "status" the
\* HTTP status once it has answered.
ConcRequests ==
    {[op |-> op, goal_id |-> ConcGoal.id, current_user |-> UserA,
      valor |-> d.valor, pc |-> "start", goal |-> {}, status |-> 0] :
        op \in {"deposit", "withdraw"}, d \in ConcValorReqs}

InitConc ==
    /\ plano = PlanoFixo
    /\ retorno = NaoChamado
    /\ transactions = {}
    /\ installments = {}
    /\ response = 0
    /\ body = NoBody
    /\ \E a \in BOOLEAN : goals = {[ConcGoal EXCEPT !.is_active = a]}
    /\ sessions \in [1..MaxRequests -> ConcRequests]

\* The request answers without having changed anything.
ConcAnswer(r, status) ==
    /\ sessions' = [sessions EXCEPT ![r].pc = "done", ![r].status = status]
    /\ response' = status
    /\ UNCHANGED goals

\* deposit_to_goal up to the assignment: query, 404 and 400 checks, then
\* goal.valor_atual = valor_atual as loaded + deposit.valor, in the session.
deposit_to_goal_query(r) ==
    LET s     == sessions[r]
        found == GoalsFound(s.goal_id, s.current_user)
    IN  /\ s.op = "deposit"
        /\ s.pc = "start"
        /\ IF found = {}
           THEN ConcAnswer(r, 404)
           ELSE LET goal == CHOOSE g \in found : TRUE
                IN  IF ~goal.is_active
                    THEN ConcAnswer(r, 400)
                    ELSE /\ sessions' =
                               [sessions EXCEPT
                                   ![r].pc = "loaded",
                                   ![r].goal =
                                       {[goal EXCEPT !.valor_atual =
                                            @ + s.valor]}]
                         /\ UNCHANGED <<goals, response>>

\* withdraw_from_goal up to the assignment: query, 404 check, balance check
\* against the value as loaded, then goal.valor_atual = current_value -
\* withdraw.valor, in the session.
withdraw_from_goal_query(r) ==
    LET s     == sessions[r]
        found == GoalsFound(s.goal_id, s.current_user)
    IN  /\ s.op = "withdraw"
        /\ s.pc = "start"
        /\ IF found = {}
           THEN ConcAnswer(r, 404)
           ELSE LET goal          == CHOOSE g \in found : TRUE
                    current_value == goal.valor_atual
                IN  IF s.valor > current_value
                    THEN ConcAnswer(r, 400)
                    ELSE /\ sessions' =
                               [sessions EXCEPT
                                   ![r].pc = "loaded",
                                   ![r].goal =
                                       {[goal EXCEPT !.valor_atual =
                                            current_value - s.valor]}]
                         /\ UNCHANGED <<goals, response>>

\* db.commit() of either handler: the flush sets the row's valor_atual to
\* the value the session holds, whatever the row holds by now, and the
\* request answers 200.
ConcCommit(r) ==
    LET s == sessions[r]
    IN  /\ s.pc = "loaded"
        /\ goals' = {IF \E d \in s.goal : d.id = g.id
                     THEN [g EXCEPT !.valor_atual =
                              (CHOOSE d \in s.goal : d.id = g.id).valor_atual]
                     ELSE g : g \in goals}
        /\ sessions' = [sessions EXCEPT ![r].pc = "done", ![r].status = 200]
        /\ response' = 200

deposit_to_goal_commit(r) ==
    /\ sessions[r].op = "deposit"
    /\ ConcCommit(r)

withdraw_from_goal_commit(r) ==
    /\ sessions[r].op = "withdraw"
    /\ ConcCommit(r)

ConcDepositQuery ==
    /\ \E r \in DOMAIN sessions : deposit_to_goal_query(r)
    /\ UNCHANGED <<plano, retorno, transactions, installments, body>>

ConcDepositCommit ==
    /\ \E r \in DOMAIN sessions : deposit_to_goal_commit(r)
    /\ UNCHANGED <<plano, retorno, transactions, installments, body>>

ConcWithdrawQuery ==
    /\ \E r \in DOMAIN sessions : withdraw_from_goal_query(r)
    /\ UNCHANGED <<plano, retorno, transactions, installments, body>>

ConcWithdrawCommit ==
    /\ \E r \in DOMAIN sessions : withdraw_from_goal_commit(r)
    /\ UNCHANGED <<plano, retorno, transactions, installments, body>>

NextConc ==
    \/ ConcDepositQuery
    \/ ConcDepositCommit
    \/ ConcWithdrawQuery
    \/ ConcWithdrawCommit

SpecConc == InitConc /\ [][NextConc]_vars

\* What request r moved, in cents: its amount if it answered 200, added for
\* a deposit and subtracted for a withdrawal; nothing otherwise.
ConcMovimento(r) ==
    IF sessions[r].status # 200 THEN 0
    ELSE IF sessions[r].op = "deposit" THEN sessions[r].valor
    ELSE 0 - sessions[r].valor

\* C30: under any interleaving of concurrent deposits and withdrawals on one
\* goal, once every request has answered the goal holds its initial amount
\* plus the successful deposits minus the successful withdrawals, and the
\* amount is never negative.
C30_NoLostUpdate ==
    /\ \A g \in goals : g.valor_atual >= 0
    /\ (sessions # NoSessions /\
        \A r \in DOMAIN sessions : sessions[r].pc = "done") =>
           \A g \in goals :
              g.valor_atual =
                 ConcGoal.valor_atual +
                 SumTo([r \in DOMAIN sessions |-> ConcMovimento(r)],
                       MaxRequests)

====
